---- MODULE Spec2Model ----
(***************************************************************************)
(* Process Tree Analysis (src/ProcessTree.py): the dataset kept by          *)
(* ProcessTreeWindow (processes, all_usernames, flagged_paths, min_time,    *)
(* max_time, selected_hour), the widgets its handlers read back (the user   *)
(* combo, the two sliders) and the views they fill (tree_model,             *)
(* stats_model, the six metric labels, the histogram).                      *)
(*                                                                         *)
(* Text is a sequence of one-character strings, so that str.lower,          *)
(* str.strip, str.split and the `in` substring test are computed character  *)
(* by character.  Local time is modelled as UTC.                            *)
(***************************************************************************)
EXTENDS Integers, Sequences, FiniteSets, TLC

(* ------------------------------------------------------------------ *)
(* Bound of the model: rows of one CSV file.                           *)
MaxRows == 2

(* ---------------------------- text ---------------------------------- *)
TimeDay1Hour01 == <<"1","7","4","7","1","8","4","4","3","0">>
TimeDay1Hour01b == <<"1","7","4","7","1","8","6","2","3","0">>
TimeDay1Hour02 == <<"1","7","4","7","1","8","8","0","3","0">>
TimeDay2Hour01 == <<"1","7","4","7","2","7","0","8","3","0">>
TimeDay1Early == <<"1","7","4","7","1","8","0","8","1","0">>
TimeOverRange == <<"9","9","9","9","9","9","9","9","9","9","9">>
Ascii ==
  <<" ","(",")","-",".","/","0","1","2","3","4","5","6","7","8","9",":","A","B","C","D","E","F","G","H","I","J","K","L","M","N","O","P","Q","R","S","T","U","V","W","X","Y","Z","\\","_","a","b","c","d","e","f","g","h","i","j","k","l","m","n","o","p","q","r","s","t","u","v","w","x","y","z">>
UpperToLower ==
  [A |-> "a", B |-> "b", C |-> "c", D |-> "d", E |-> "e", F |-> "f", G |-> "g", H |-> "h", I |-> "i", J |-> "j", K |-> "k", L |-> "l", M |-> "m", N |-> "n", O |-> "o", P |-> "p", Q |-> "q", R |-> "r", S |-> "s", T |-> "t", U |-> "u", V |-> "v", W |-> "w", X |-> "x", Y |-> "y", Z |-> "z"]
(* src/ProcessTree.py:336-377, the living-off-the-land binary names, in source order. *)
lotl_binaries ==
  <<
    <<"a","d","d","i","n","u","t","i","l",".","e","x","e">>,
    <<"a","p","p","i","n","s","t","a","l","l","e","r",".","e","x","e">>,
    <<"a","s","p","n","e","t","_","c","o","m","p","i","l","e","r",".","e","x","e">>,
    <<"a","t",".","e","x","e">>,
    <<"a","t","b","r","o","k","e","r",".","e","x","e">>,
    <<"b","a","s","h",".","e","x","e">>,
    <<"b","i","t","s","a","d","m","i","n",".","e","x","e">>,
    <<"c","e","r","t","o","c",".","e","x","e">>,
    <<"c","e","r","t","r","e","q",".","e","x","e">>,
    <<"c","e","r","t","u","t","i","l",".","e","x","e">>,
    <<"c","i","p","h","e","r",".","e","x","e">>,
    <<"c","m","d",".","e","x","e">>,
    <<"c","m","d","k","e","y",".","e","x","e">>,
    <<"c","m","d","l","3","2",".","e","x","e">>,
    <<"c","m","s","t","p",".","e","x","e">>,
    <<"c","o","l","o","r","c","p","l",".","e","x","e">>,
    <<"c","o","m","p","u","t","e","r","d","e","f","a","u","l","t","s",".","e","x","e">>,
    <<"c","o","n","f","i","g","s","e","c","u","r","i","t","y","p","o","l","i","c","y",".","e","x","e">>,
    <<"c","o","n","h","o","s","t",".","e","x","e">>,
    <<"c","o","n","t","r","o","l",".","e","x","e">>,
    <<"c","s","c",".","e","x","e">>,
    <<"c","s","c","r","i","p","t",".","e","x","e">>,
    <<"c","u","s","t","o","m","s","h","e","l","l","h","o","s","t",".","e","x","e">>,
    <<"d","a","t","a","s","v","c","u","t","i","l",".","e","x","e">>,
    <<"d","e","s","k","t","o","p","i","m","g","d","o","w","n","l","d","r",".","e","x","e">>,
    <<"d","e","v","i","c","e","c","r","e","d","e","n","t","i","a","l","d","e","p","l","o","y","m","e","n","t",".","e","x","e">>,
    <<"d","f","s","v","c",".","e","x","e">>,
    <<"d","i","a","n","t","z",".","e","x","e">>,
    <<"d","i","s","k","s","h","a","d","o","w",".","e","x","e">>,
    <<"d","n","s","c","m","d",".","e","x","e">>,
    <<"e","s","e","n","t","u","t","l",".","e","x","e">>,
    <<"e","v","e","n","t","v","w","r",".","e","x","e">>,
    <<"e","x","p","a","n","d",".","e","x","e">>,
    <<"e","x","p","l","o","r","e","r",".","e","x","e">>,
    <<"e","x","t","e","x","p","o","r","t",".","e","x","e">>,
    <<"e","x","t","r","a","c","3","2",".","e","x","e">>,
    <<"f","i","n","d","s","t","r",".","e","x","e">>,
    <<"f","i","n","g","e","r",".","e","x","e">>,
    <<"f","l","t","m","c",".","e","x","e">>,
    <<"f","o","r","f","i","l","e","s",".","e","x","e">>,
    <<"f","s","u","t","i","l",".","e","x","e">>,
    <<"f","t","p",".","e","x","e">>,
    <<"g","p","s","c","r","i","p","t",".","e","x","e">>,
    <<"h","h",".","e","x","e">>,
    <<"i","m","e","w","d","b","l","d",".","e","x","e">>,
    <<"i","e","4","u","i","n","i","t",".","e","x","e">>,
    <<"i","e","d","i","a","g","c","m","d",".","e","x","e">>,
    <<"i","e","e","x","e","c",".","e","x","e">>,
    <<"i","l","a","s","m",".","e","x","e">>,
    <<"i","n","f","d","e","f","a","u","l","t","i","n","s","t","a","l","l",".","e","x","e">>,
    <<"i","n","s","t","a","l","l","u","t","i","l",".","e","x","e">>,
    <<"j","s","c",".","e","x","e">>,
    <<"l","d","i","f","d","e",".","e","x","e">>,
    <<"m","a","k","e","c","a","b",".","e","x","e">>,
    <<"m","a","v","i","n","j","e","c","t",".","e","x","e">>,
    <<"m","i","c","r","o","s","o","f","t",".","w","o","r","k","f","l","o","w",".","c","o","m","p","i","l","e","r",".","e","x","e">>,
    <<"m","m","c",".","e","x","e">>,
    <<"m","p","c","m","d","r","u","n",".","e","x","e">>,
    <<"m","s","b","u","i","l","d",".","e","x","e">>,
    <<"m","s","c","o","n","f","i","g",".","e","x","e">>,
    <<"m","s","d","t",".","e","x","e">>,
    <<"m","s","e","d","g","e",".","e","x","e">>,
    <<"m","s","h","t","a",".","e","x","e">>,
    <<"m","s","i","e","x","e","c",".","e","x","e">>,
    <<"n","e","t","s","h",".","e","x","e">>,
    <<"n","g","e","n",".","e","x","e">>,
    <<"o","d","b","c","c","o","n","f",".","e","x","e">>,
    <<"o","f","f","l","i","n","e","s","c","a","n","n","e","r","s","h","e","l","l",".","e","x","e">>,
    <<"o","n","e","d","r","i","v","e","s","t","a","n","d","a","l","o","n","e","u","p","d","a","t","e","r",".","e","x","e">>,
    <<"p","c","a","l","u","a",".","e","x","e">>,
    <<"p","c","w","r","u","n",".","e","x","e">>,
    <<"p","k","t","m","o","n",".","e","x","e">>,
    <<"p","n","p","u","t","i","l",".","e","x","e">>,
    <<"p","r","e","s","e","n","t","a","t","i","o","n","h","o","s","t",".","e","x","e">>,
    <<"p","r","i","n","t",".","e","x","e">>,
    <<"p","r","i","n","t","b","r","m",".","e","x","e">>,
    <<"p","r","o","v","l","a","u","n","c","h",".","e","x","e">>,
    <<"p","s","r",".","e","x","e">>,
    <<"r","a","s","a","u","t","o","u",".","e","x","e">>,
    <<"r","d","r","l","e","a","k","d","i","a","g",".","e","x","e">>,
    <<"r","e","g",".","e","x","e">>,
    <<"r","e","g","a","s","m",".","e","x","e">>,
    <<"r","e","g","e","d","i","t",".","e","x","e">>,
    <<"r","e","g","i","n","i",".","e","x","e">>,
    <<"r","e","g","i","s","t","e","r","-","c","i","m","p","r","o","v","i","d","e","r",".","e","x","e">>,
    <<"r","e","g","s","v","c","s",".","e","x","e">>,
    <<"r","e","g","s","v","r","3","2",".","e","x","e">>,
    <<"r","e","p","l","a","c","e",".","e","x","e">>,
    <<"r","p","c","p","i","n","g",".","e","x","e">>,
    <<"r","u","n","d","l","l","3","2",".","e","x","e">>,
    <<"r","u","n","o","n","c","e",".","e","x","e">>,
    <<"r","u","n","s","c","r","i","p","t","h","e","l","p","e","r",".","e","x","e">>,
    <<"s","c",".","e","x","e">>,
    <<"s","c","h","t","a","s","k","s",".","e","x","e">>,
    <<"s","c","r","i","p","t","r","u","n","n","e","r",".","e","x","e">>,
    <<"s","e","t","r","e","s",".","e","x","e">>,
    <<"s","e","t","t","i","n","g","s","y","n","c","h","o","s","t",".","e","x","e">>,
    <<"s","s","h",".","e","x","e">>,
    <<"s","t","o","r","d","i","a","g",".","e","x","e">>,
    <<"s","y","n","c","a","p","p","v","p","u","b","l","i","s","h","i","n","g","s","e","r","v","e","r",".","e","x","e">>,
    <<"t","a","r",".","e","x","e">>,
    <<"t","t","d","i","n","j","e","c","t",".","e","x","e">>,
    <<"t","t","t","r","a","c","e","r",".","e","x","e">>,
    <<"u","n","r","e","g","m","p","2",".","e","x","e">>,
    <<"v","b","c",".","e","x","e">>,
    <<"v","e","r","c","l","s","i","d",".","e","x","e">>,
    <<"w","a","b",".","e","x","e">>,
    <<"w","b","a","d","m","i","n",".","e","x","e">>,
    <<"w","b","e","m","t","e","s","t",".","e","x","e">>,
    <<"w","i","n","g","e","t",".","e","x","e">>,
    <<"w","l","r","m","d","r",".","e","x","e">>,
    <<"w","m","i","c",".","e","x","e">>,
    <<"w","o","r","k","f","o","l","d","e","r","s",".","e","x","e">>,
    <<"w","s","c","r","i","p","t",".","e","x","e">>,
    <<"w","s","r","e","s","e","t",".","e","x","e">>,
    <<"w","u","a","u","c","l","t",".","e","x","e">>,
    <<"x","w","i","z","a","r","d",".","e","x","e">>,
    <<"m","s","e","d","g","e","_","p","r","o","x","y",".","e","x","e">>,
    <<"m","s","e","d","g","e","w","e","b","v","i","e","w","2",".","e","x","e">>,
    <<"w","t",".","e","x","e">>,
    <<"a","c","c","c","h","e","c","k","c","o","n","s","o","l","e",".","e","x","e">>,
    <<"a","d","p","l","u","s",".","e","x","e">>,
    <<"a","g","e","n","t","e","x","e","c","u","t","o","r",".","e","x","e">>,
    <<"a","p","p","c","e","r","t",".","e","x","e">>,
    <<"a","p","p","v","l","p",".","e","x","e">>,
    <<"b","g","i","n","f","o",".","e","x","e">>,
    <<"c","d","b",".","e","x","e">>,
    <<"c","o","r","e","g","e","n",".","e","x","e">>,
    <<"c","r","e","a","t","e","d","u","m","p",".","e","x","e">>,
    <<"c","s","i",".","e","x","e">>,
    <<"d","e","f","a","u","l","t","p","a","c","k",".","e","x","e">>,
    <<"d","e","v","i","n","i","t",".","e","x","e">>,
    <<"d","e","v","t","o","o","l","s","l","a","u","n","c","h","e","r",".","e","x","e">>,
    <<"d","n","x",".","e","x","e">>,
    <<"d","o","t","n","e","t",".","e","x","e">>,
    <<"d","s","d","b","u","t","i","l",".","e","x","e">>,
    <<"d","t","u","t","i","l",".","e","x","e">>,
    <<"d","u","m","p","6","4",".","e","x","e">>,
    <<"d","u","m","p","m","i","n","i","t","o","o","l",".","e","x","e">>,
    <<"d","x","c","a","p",".","e","x","e">>,
    <<"e","x","c","e","l",".","e","x","e">>,
    <<"f","s","i",".","e","x","e">>,
    <<"f","s","i","a","n","y","c","p","u",".","e","x","e">>,
    <<"m","f","t","r","a","c","e",".","e","x","e">>,
    <<"m","i","c","r","o","s","o","f","t",".","n","o","d","e","j","s","t","o","o","l","s",".","p","r","e","s","s","a","n","y","k","e","y",".","e","x","e">>,
    <<"m","s","a","c","c","e","s","s",".","e","x","e">>,
    <<"m","s","d","e","p","l","o","y",".","e","x","e">>,
    <<"m","s","o","h","t","m","e","d",".","e","x","e">>,
    <<"m","s","p","u","b",".","e","x","e">>,
    <<"m","s","x","s","l",".","e","x","e">>,
    <<"n","t","d","s","u","t","i","l",".","e","x","e">>,
    <<"o","p","e","n","c","o","n","s","o","l","e",".","e","x","e">>,
    <<"p","o","w","e","r","p","n","t",".","e","x","e">>,
    <<"p","r","o","c","d","u","m","p",".","e","x","e">>,
    <<"p","r","o","t","o","c","o","l","h","a","n","d","l","e","r",".","e","x","e">>,
    <<"r","c","s","i",".","e","x","e">>,
    <<"r","e","m","o","t","e",".","e","x","e">>,
    <<"s","q","l","d","u","m","p","e","r",".","e","x","e">>,
    <<"s","q","l","p","s",".","e","x","e">>,
    <<"s","q","l","t","o","o","l","s","p","s",".","e","x","e">>,
    <<"s","q","u","i","r","r","e","l",".","e","x","e">>,
    <<"t","e",".","e","x","e">>,
    <<"t","e","a","m","s",".","e","x","e">>,
    <<"t","e","s","t","w","i","n","d","o","w","r","e","m","o","t","e","a","g","e","n","t",".","e","x","e">>,
    <<"t","r","a","c","k","e","r",".","e","x","e">>,
    <<"u","p","d","a","t","e",".","e","x","e">>,
    <<"v","s","d","i","a","g","n","o","s","t","i","c","s",".","e","x","e">>,
    <<"v","s","i","i","s","e","x","e","l","a","u","n","c","h","e","r",".","e","x","e">>,
    <<"v","i","s","i","o",".","e","x","e">>,
    <<"v","i","s","u","a","l","u","i","a","v","e","r","i","f","y","n","a","t","i","v","e",".","e","x","e">>,
    <<"v","s","l","a","u","n","c","h","b","r","o","w","s","e","r",".","e","x","e">>,
    <<"v","s","h","a","d","o","w",".","e","x","e">>,
    <<"v","s","j","i","t","d","e","b","u","g","g","e","r",".","e","x","e">>,
    <<"w","f","m","f","o","r","m","a","t",".","e","x","e">>,
    <<"w","f","c",".","e","x","e">>,
    <<"w","i","n","p","r","o","j",".","e","x","e">>,
    <<"w","i","n","w","o","r","d",".","e","x","e">>,
    <<"w","s","l",".","e","x","e">>,
    <<"d","e","v","t","u","n","n","e","l",".","e","x","e">>,
    <<"v","s","l","s","-","a","g","e","n","t",".","e","x","e">>,
    <<"v","s","t","e","s","t",".","c","o","n","s","o","l","e",".","e","x","e">>,
    <<"w","i","n","f","i","l","e",".","e","x","e">>,
    <<"x","s","d",".","e","x","e">>,
    <<"p","o","w","e","r","s","h","e","l","l",".","e","x","e">>
  >>
suspicious_patterns ==
  <<
    <<"p","o","w","e","r","s","h","e","l","l">>,
    <<"c","m","d">>,
    <<"n","e","t">>,
    <<"w","h","o","a","m","i">>,
    <<"c","u","r","l">>,
    <<"w","g","e","t">>
  >>
network_patterns ==
  <<
    <<"c","u","r","l">>,
    <<"w","g","e","t">>,
    <<"i","n","v","o","k","e","-","w","e","b","r","e","q","u","e","s","t">>,
    <<"i","n","v","o","k","e","-","r","e","s","t","m","e","t","h","o","d">>,
    <<"n","e","t"," ","u","s","e">>,
    <<"f","t","p">>
  >>
registry_patterns ==
  <<
    <<"r","e","g"," ","a","d","d">>,
    <<"r","e","g"," ","d","e","l","e","t","e">>,
    <<"r","e","g"," ","i","m","p","o","r","t">>
  >>
AllUsersText == <<"A","l","l"," ","U","s","e","r","s">>
UnknownText == <<"U","n","k","n","o","w","n">>
DashText == <<"-">>
ElevationDefault == <<"T","o","k","e","n","E","l","e","v","a","t","i","o","n","T","y","p","e","D","e","f","a","u","l","t"," ","(","1",")">>
ElevationLimited == <<"T","o","k","e","n","E","l","e","v","a","t","i","o","n","T","y","p","e","L","i","m","i","t","e","d"," ","(","2",")">>
ElevationFull == <<"T","o","k","e","n","E","l","e","v","a","t","i","o","n","T","y","p","e","F","u","l","l"," ","(","3",")">>
Pid100 == <<"0","x","1","0","0">>
Pid200 == <<"0","x","2","0","0">>
Pid300 == <<"0","x","3","0","0">>
Pid999 == <<"0","x","9","9","9">>
Alice == <<"a","l","i","c","e">>
Bob == <<"b","o","b">>
PathPowerShell == <<"C",":","\\","P","o","w","e","r","S","h","e","l","l",".","E","X","E">>
PathApp == <<"C",":","\\","t","\\","a","p","p",".","e","x","e">>
PathAppOther == <<"D",":","\\","a","p","p",".","e","x","e">>
PathExplorer == <<"C",":","\\","e","x","p","l","o","r","e","r",".","e","x","e">>
CmdShell == <<"C","M","D"," ","/","c">>
CmdNetUse == <<"n","e","t"," ","u","s","e">>
CmdRegAdd == <<"r","e","g"," ","a","d","d">>
CmdPlain == <<"a"," ","/","s">>

(* str.lower() on one character. *)
LowerChar(c) == IF c \in DOMAIN UpperToLower THEN UpperToLower[c] ELSE c

(* str.lower() *)
Lower(s) == [i \in 1..Len(s) |-> LowerChar(s[i])]

Whitespace == {" ", "\t", "\n", "\r"}

SetMin(S) == CHOOSE x \in S : \A y \in S : x <= y

SetMax(S) == CHOOSE x \in S : \A y \in S : x >= y

(* str.lstrip(), str.rstrip(), str.strip() *)
RECURSIVE LStrip(_)
LStrip(s) == IF s # <<>> /\ Head(s) \in Whitespace THEN LStrip(Tail(s)) ELSE s

RECURSIVE RStrip(_)
RStrip(s) ==
  IF s # <<>> /\ s[Len(s)] \in Whitespace THEN RStrip(SubSeq(s, 1, Len(s) - 1)) ELSE s

Strip(s) == RStrip(LStrip(s))

(* pattern in text *)
Contains(s, pat) ==
  \/ pat = <<>>
  \/ \E i \in 1..(Len(s) - Len(pat) + 1) :
       s[i] = pat[1] /\ SubSeq(s, i, i + Len(pat) - 1) = pat

(* text.split('\\')[-1] *)
LastSegment(s) ==
  LET bs == {i \in 1..Len(s) : s[i] = "\\"}
  IN  IF bs = {} THEN s ELSE SubSeq(s, SetMax(bs) + 1, Len(s))

(* the place of c in Ascii, the characters of the model in the order of ord(c). *)
CharCode(c) == (CHOOSE i \in 1..Len(Ascii) : Ascii[i] = c)

(* a < b on str: the first differing character decides, a proper prefix is smaller. *)
StrLess(a, b) ==
  LET n == IF Len(a) < Len(b) THEN Len(a) ELSE Len(b)
      diff == {i \in 1..n : a[i] # b[i]}
  IN  IF diff = {} THEN Len(a) < Len(b)
      ELSE CharCode(a[SetMin(diff)]) < CharCode(b[SetMin(diff)])

(* sorted(S) of a set of str *)
RECURSIVE Sorted(_)
Sorted(S) ==
  IF S = {} THEN <<>>
  ELSE LET m == CHOOSE x \in S : \A y \in S \ {x} : StrLess(x, y)
       IN  <<m>> \o Sorted(S \ {m})

Range(q) == {q[i] : i \in 1..Len(q)}

(* any(pattern in text for pattern in patterns) *)
AnyPatternIn(patterns, text) == \E p \in Range(patterns) : Contains(text, p)

(* The greatest value the parser keeps as a time (src/ProcessTree.py:574). *)
MaxEpoch == 2147483647

Digits == <<"0","1","2","3","4","5","6","7","8","9">>

DigitValue(c) == (CHOOSE i \in 1..10 : Digits[i] = c) - 1

(* int(text) of a \d+ match, with the comparison `> 2147483647` of line 574 folded   *)
(* in: over is TRUE when the value exceeds MaxEpoch, val is the value otherwise.     *)
RECURSIVE DecimalValue(_, _)
DecimalValue(text, acc) ==
  IF text = <<>> THEN [over |-> FALSE, val |-> acc]
  ELSE LET d == DigitValue(Head(text))
       IN  IF acc > (MaxEpoch - d) \div 10 THEN [over |-> TRUE, val |-> 0]
           ELSE DecimalValue(Tail(text), acc * 10 + d)

(* start_slider.setMaximum(100) (lines 180, 187) and the range of line 609 when   *)
(* max_time is not above min_time.                                               *)
DefaultSliderMax == 100

(* ------------------------- the dataset ------------------------------ *)
(* A dict is the sequence of its items in insertion order; assigning to a key   *)
(* that is present replaces its value in place.                                 *)
Keys(d) == {d[i].key : i \in 1..Len(d)}

Get(d, k) == d[CHOOSE i \in 1..Len(d) : d[i].key = k].value

Values(d) == {d[i].value : i \in 1..Len(d)}

(* DictSet that leaves a key that is present as it is. *)
DictSetKeepFirst(d, k, v) ==
  IF k \in Keys(d) THEN d ELSE Append(d, [key |-> k, value |-> v])

DictSet(d, k, v) ==
  IF k \in Keys(d)
  THEN [i \in 1..Len(d) |-> IF d[i].key = k THEN [key |-> k, value |-> v] ELSE d[i]]
  ELSE Append(d, [key |-> k, value |-> v])

(* float('inf') and float('-inf'), the values of min_time and max_time while a  *)
(* load is scanning (lines 512-513); every time the parser keeps is positive.   *)
FloatInf == -1

FloatNegInf == -2

(* min(self.min_time, time_int), max(self.max_time, time_int) *)
PyMin(a, b) == IF a = FloatInf \/ b < a THEN b ELSE a

PyMax(a, b) == IF a = FloatNegInf \/ b > a THEN b ELSE a

(* re.search found nothing: every group of the patterns holds one character or more. *)
NoMatch == <<>>

(* A message is the text of one cell of the message column, given by what the    *)
(* searches of lines 530-553 find in it: marks are the literal markers it holds, *)
(* each other field is the group captured for that label, or NoMatch.            *)
Message(marks, account, pid, creator, path, time, cmd, elevation, creator_name) ==
  [marks |-> marks, account_name |-> account, new_pid |-> pid, creator_pid |-> creator,
   new_process_name |-> path, time_generated |-> time, cmdline |-> cmd,
   elevation_type |-> elevation, creator_name |-> creator_name]

BothMarks == {"EventID=4688", "Creator Subject"}

(* lines 527-528 *)
Qualifies(msg) == BothMarks \subseteq msg.marks

(* HasRequiredGroups without the New Process Name. *)
HasRequiredGroupsNoPath(msg) ==
  /\ msg.account_name # NoMatch
  /\ msg.new_pid # NoMatch
  /\ msg.creator_pid # NoMatch

(* line 555 *)
HasRequiredGroups(msg) ==
  /\ msg.account_name # NoMatch
  /\ msg.new_pid # NoMatch
  /\ msg.creator_pid # NoMatch
  /\ msg.new_process_name # NoMatch

(* lines 568-578: the integer kept for a TimeGenerated text, 0 when it is not a  *)
(* positive value up to MaxEpoch.                                                *)
TimeInt(text) ==
  LET n == DecimalValue(text, 0)
  IN  IF n.over \/ n.val <= 0 THEN 0 ELSE n.val

OptionalText(group) == IF group # NoMatch THEN Strip(group) ELSE UnknownText

(* lines 558-595: one qualifying message with its required groups; scan is       *)
(* [processes, all_usernames, min_time, max_time].                               *)
StoreMessage(scan, msg) ==
  LET account_name == Strip(msg.account_name)
      new_pid == Strip(msg.new_pid)
      creator_pid == Strip(msg.creator_pid)
      full_path == Strip(msg.new_process_name)
      process_name == IF full_path # <<>> THEN LastSegment(full_path) ELSE UnknownText
      time_generated == IF msg.time_generated # NoMatch THEN msg.time_generated ELSE <<"0">>
      cmdline == IF msg.cmdline # NoMatch THEN Lower(Strip(msg.cmdline)) ELSE UnknownText
      time_int == TimeInt(time_generated)
      timed == [scan EXCEPT !.min_time = IF time_int > 0 THEN PyMin(@, time_int) ELSE @,
                            !.max_time = IF time_int > 0 THEN PyMax(@, time_int) ELSE @]
      data == [account_name |-> account_name,
               creator_pid |-> creator_pid,
               process_name |-> process_name,
               full_path |-> IF full_path # <<>> THEN full_path ELSE UnknownText,
               time_generated |-> time_int,
               cmdline |-> cmdline,
               elevation_type |-> OptionalText(msg.elevation_type),
               creator_name |-> OptionalText(msg.creator_name)]
  IN  IF account_name # <<>> /\ account_name # DashText
      THEN [timed EXCEPT !.all_usernames = @ \cup {account_name},
                         !.processes = DictSet(@, new_pid, data)]
      ELSE timed

(* lines 524-595: the loop over the message column. *)
RECURSIVE ScanMessages(_, _)
ScanMessages(scan, messages) ==
  IF messages = <<>> THEN scan
  ELSE LET msg == Head(messages)
           next == IF Qualifies(msg) /\ HasRequiredGroups(msg)
                   THEN StoreMessage(scan, msg) ELSE scan
       IN  ScanMessages(next, Tail(messages))

(* lines 515-522: some cell of the file holds "Creator Subject". *)
HasMessageColumn(messages) ==
  \E i \in 1..Len(messages) : "Creator Subject" \in messages[i].marks

(* line 598: [bin.lower() for bin in self.lotl_binaries] *)
LotlLowered == {Lower(b) : b \in Range(lotl_binaries)}

(* IsLotl with the names compared as written. *)
IsLotlCaseSensitive(data) == data.process_name \in Range(lotl_binaries)

(* line 598 *)
IsLotl(data) == Lower(data.process_name) \in LotlLowered

LotlPaths(procs) == {data.full_path : data \in {v \in Values(procs) : IsLotl(v)}}

(* ----------------------- filtering and views ------------------------- *)
(* None, as the value of an argument that is a str otherwise. *)
PyNone == <<"None">>

(* selected_hour = None (line 334, and on_double_click). *)
NoHour == <<>>

(* truth value of a str-or-None argument *)
Truthy(x) == x # PyNone /\ x # <<>>

(* self.step_size, seconds per slider position. *)
step_size == 60

(* pandas floor('h') / ceil('h'), datetime.replace(minute=0, second=0). *)
HourFloor(t) == t - (t % 3600)

HourCeil(t) == IF t % 3600 = 0 THEN t ELSE HourFloor(t) + 3600

(* strftime('%H:%M'): <<hour, minute>> of the day. *)
HourMinute(t) == <<(t % 86400) \div 3600, (t % 3600) \div 60>>

(* strftime('%m-%d %H:%M'): the calendar day (counted from the epoch), then the  *)
(* hour and minute; the day is what stands before the blank.                     *)
DateHourMinute(t) == <<t \div 86400>> \o HourMinute(t)

(* lines 773-775 *)
ProcessHour(time_generated) == HourMinute(HourFloor(time_generated))

GetOr(d, k, default) == IF k \in Keys(d) THEN Get(d, k) ELSE default

(* BuildChildren with the list of a creator replaced, not extended, by each child. *)
RECURSIVE BuildChildrenOverwrite(_, _)
BuildChildrenOverwrite(items, children) ==
  IF items = <<>> THEN children
  ELSE BuildChildrenOverwrite(Tail(items),
                              DictSet(children, Head(items).value.creator_pid, <<Head(items).key>>))

(* lines 747-752 (and 662-667): creator_pid -> pids created by it, in dict order. *)
RECURSIVE BuildChildren(_, _)
BuildChildren(items, children) ==
  IF items = <<>> THEN children
  ELSE LET pid == Head(items).key
           creator_pid == Head(items).value.creator_pid
       IN  BuildChildren(Tail(items),
                         DictSet(children, creator_pid,
                                 Append(GetOr(children, creator_pid, <<>>), pid)))

(* line 766 *)
PassesAccount(data, filter_username) ==
  ~(Truthy(filter_username) /\ data.account_name # filter_username)

(* PassesTimeFrom that lets a record without a time through. *)
PassesTimeFromUntimed(data, time_from) ==
  ~(time_from # 0 /\ data.time_generated # 0 /\ data.time_generated < time_from)

(* line 768 *)
PassesTimeFrom(data, time_from) ==
  ~(time_from # 0 /\ data.time_generated < time_from)

(* PassesTimeTo with the upper bound excluded. *)
PassesTimeToStrict(data, time_to) ==
  ~(time_to # 0 /\ data.time_generated >= time_to)

(* line 770 *)
PassesTimeTo(data, time_to) ==
  ~(time_to # 0 /\ data.time_generated > time_to)

(* lines 772-777 *)
PassesHour(data, selected_hour) ==
  selected_hour # NoHour => ProcessHour(data.time_generated) = selected_hour

(* lines 765-777: the record is not skipped by a `continue`. *)
PassesFilter(w, data, filter_username, time_from, time_to) ==
  /\ PassesAccount(data, filter_username)
  /\ PassesTimeFrom(data, time_from)
  /\ PassesTimeTo(data, time_to)
  /\ PassesHour(data, w.selected_hour)

ElevatedTypes == {ElevationFull, ElevationLimited}

RootText == <<"R","o","o","t">>

(* NodeBrush with the elevation tested before the flag. *)
NodeBrushElevationFirst(w, data) ==
  IF data.elevation_type \in ElevatedTypes THEN "red"
  ELSE IF data.full_path \in w.flagged_paths THEN "blue"
  ELSE "none"

(* lines 865-872: the brush of a tree row. *)
NodeBrush(w, data) ==
  IF data.full_path \in w.flagged_paths THEN "blue"
  ELSE IF data.elevation_type \in ElevatedTypes THEN "red"
  ELSE "none"

(* lines 877-878 *)
ChildAccountShown(w, child_pid) ==
  \/ Get(w.processes, child_pid).account_name = w.combo_text
  \/ w.combo_text = AllUsersText

(* lines 848-879: the rows appended for pid and, through the recursion, below it. *)
RECURSIVE AddProcessNode(_, _, _, _)
AddProcessNode(w, parent, pid, children) ==
  LET data == Get(w.processes, pid)
      kids == GetOr(children, pid, <<>>)
      shown == {i \in 1..Len(kids) : ChildAccountShown(w, kids[i])}
  IN  {[pid |-> pid, parent |-> parent, name |-> data.process_name,
        brush |-> NodeBrush(w, data)]}
        \cup UNION {AddProcessNode(w, pid, kids[i], children) : i \in shown}

(* CountApp without the count kept so far. *)
CountAppOnce(app_counts, app_name) == DictSet(app_counts, app_name, 1)

(* line 781 *)
CountApp(app_counts, app_name) == DictSet(app_counts, app_name, GetOr(app_counts, app_name, 0) + 1)

(* lines 779-781 over the filtered records *)
RECURSIVE CountApps(_, _)
CountApps(filtered, app_counts) ==
  IF filtered = <<>> THEN app_counts
  ELSE CountApps(Tail(filtered), CountApp(app_counts, Head(filtered).value.process_name))

(* CountPattern with 1 added for every pattern a command line holds. *)
CountPatternHits(filtered, patterns) ==
  Cardinality({<<i, k>> \in (1..Len(filtered)) \X (1..Len(patterns)) :
                 Contains(filtered[i].value.cmdline, patterns[k])})

(* lines 781-791: the records of the filtered set whose command line holds a pattern. *)
CountPattern(filtered, patterns) ==
  Cardinality({i \in 1..Len(filtered) : AnyPatternIn(patterns, filtered[i].value.cmdline)})

(* lines 782-791 and 815-820: the six metric labels. *)
MetricLabels(filtered) ==
  [unique_users |-> Cardinality({filtered[i].value.account_name : i \in 1..Len(filtered)}),
   elevated_processes |->
     Cardinality({i \in 1..Len(filtered) : filtered[i].value.elevation_type \in ElevatedTypes}),
   unique_parents |-> Cardinality({filtered[i].value.creator_name : i \in 1..Len(filtered)}),
   suspicious_commands |-> CountPattern(filtered, suspicious_patterns),
   network_commands |-> CountPattern(filtered, network_patterns),
   registry_commands |-> CountPattern(filtered, registry_patterns)]

(* lines 502-507, 625-630, 893-898 *)
ZeroLabels ==
  [unique_users |-> 0, elevated_processes |-> 0, unique_parents |-> 0,
   suspicious_commands |-> 0, network_commands |-> 0, registry_commands |-> 0]

(* line 807-809: the row of an application is drawn flagged. *)
AppFlagged(w, app) ==
  \E data \in Values(w.processes) : data.process_name = app /\ data.full_path \in w.flagged_paths

(* lines 796-811: the rows of stats_model; head is the text of the first row, total  *)
(* its count, apps the rows below it in sorted order.                                *)
StatsRows(w, filtered) ==
  LET app_counts == CountApps(filtered, <<>>)
      sorted_apps == Sorted(Keys(app_counts))
  IN  [head |-> "Total Processes",
       total |-> Len(filtered),
       apps |-> IF Len(filtered) > 0
                THEN [i \in 1..Len(sorted_apps) |->
                        [app |-> sorted_apps[i],
                         count |-> Get(app_counts, sorted_apps[i]),
                         flagged |-> AppFlagged(w, sorted_apps[i])]]
                ELSE <<>>]

(* stats_model.removeRows(0, rowCount()) *)
NoStats == [head |-> "", total |-> 0, apps |-> <<>>]

(* lines 891-892 *)
InvalidStats == [head |-> "Invalid time range", total |-> 0, apps |-> <<>>]

(* lines 669-681: records with a time in (0, MaxEpoch] enter the frame. *)
TimedItems(items) ==
  SelectSeq(items, LAMBDA it : it.value.time_generated > 0 /\ it.value.time_generated <= MaxEpoch)

(* HistFrame with the hour selection applied as well. *)
HistFrameHour(w, filter_username, time_from, time_to) ==
  SelectSeq(TimedItems(w.processes),
            LAMBDA it :
              /\ (Truthy(filter_username) /\ filter_username # AllUsersText
                    => it.value.account_name = filter_username)
              /\ (time_from # 0 => it.value.time_generated >= time_from)
              /\ (time_to # 0 => it.value.time_generated <= time_to)
              /\ PassesHour(it.value, w.selected_hour))

(* lines 695-700: the account and time filters of the frame. *)
HistFrame(w, filter_username, time_from, time_to) ==
  SelectSeq(TimedItems(w.processes),
            LAMBDA it :
              /\ (Truthy(filter_username) /\ filter_username # AllUsersText
                    => it.value.account_name = filter_username)
              /\ (time_from # 0 => it.value.time_generated >= time_from)
              /\ (time_to # 0 => it.value.time_generated <= time_to))

(* lines 707-708: floor of time_from and ceil of time_to, to the hour. *)
RangeStart(time_from) == HourFloor(time_from)

(* RangeEnd rounded down to the hour. *)
RangeEndFloor(time_to) == HourFloor(time_to)

RangeEnd(time_to) == HourCeil(time_to)

(* pd.date_range(start, end, freq='h'): every hour from start to end, both included. *)
DateRange(start, end) == [i \in 1..((end - start) \div 3600 + 1) |-> start + (i - 1) * 3600]

(* line 706: df.groupby('hour').size() *)
GroupSize(df, hour) ==
  Cardinality({i \in 1..Len(df) : HourFloor(df[i].value.time_generated) = hour})

(* lines 706-717: the sizes reindexed over the range, hours with no record filled with 0. *)
HourCounts(df, time_from, time_to) ==
  LET index == DateRange(RangeStart(time_from), RangeEnd(time_to))
      present == {HourFloor(df[i].value.time_generated) : i \in 1..Len(df)}
  IN  [i \in 1..Len(index) |->
         [hour |-> index[i],
          count |-> IF index[i] \in present THEN GroupSize(df, index[i]) ELSE 0]]

(* lines 657-732: the bars handed to update_plot, each with its label and count. *)
BuildProcessHist(w, filter_username, time_from, time_to) ==
  IF w.processes = <<>> THEN <<>>
  ELSE LET df == HistFrame(w, filter_username, time_from, time_to)
       IN  IF df = <<>> THEN <<>>
           ELSE LET counts == HourCounts(df, time_from, time_to)
                    use_date == counts[Len(counts)].hour \div 86400 > counts[1].hour \div 86400
                IN  [i \in 1..Len(counts) |->
                       [hour |-> IF use_date THEN DateHourMinute(counts[i].hour)
                                 ELSE HourMinute(counts[i].hour),
                        count |-> counts[i].count]]

(* lines 743-821: the tree rows, the stats rows, the labels and the histogram of  *)
(* the records that pass the filter.                                              *)
BuildProcessTree(w, filter_username, time_from, time_to) ==
  LET children == BuildChildren(w.processes, <<>>)
      filtered == SelectSeq(w.processes,
                            LAMBDA it : PassesFilter(w, it.value, filter_username, time_from, time_to))
      roots == {i \in 1..Len(filtered) : filtered[i].value.creator_pid \notin Keys(w.processes)}
  IN  [w EXCEPT !.tree_model = UNION {AddProcessNode(w, RootText, filtered[i].key, children) : i \in roots},
                !.stats_model = StatsRows(w, filtered),
                !.labels = MetricLabels(filtered),
                !.hist = BuildProcessHist(w, filter_username, time_from, time_to),
                !.outcome = "Built"]

(* lines 885-888 *)
StartTime(w) == w.min_time + (w.start_value * step_size)

EndTime(w) == w.min_time + (w.end_value * step_size)

(* line 890 *)
InvalidRange(w) == StartTime(w) > EndTime(w)

(* ShowInvalidRange with the six counters left as they were. *)
ShowInvalidRangeKeepCounters(w) ==
  [w EXCEPT !.stats_model = InvalidStats,
            !.hist = <<>>,
            !.outcome = "InvalidRange"]

(* lines 890-903: the branch taken for a start time after the end time. *)
ShowInvalidRange(w) ==
  [w EXCEPT !.stats_model = InvalidStats,
            !.labels = ZeroLabels,
            !.hist = <<>>,
            !.outcome = "InvalidRange"]

(* lines 881-909; username is PyNone when the caller passes none. *)
FilterTree(w, username) ==
  IF w.processes = <<>> THEN [w EXCEPT !.outcome = "NoData"]
  ELSE IF InvalidRange(w) THEN ShowInvalidRange(w)
  ELSE LET name == IF username = PyNone THEN w.combo_text ELSE username
           filter_username == IF name # AllUsersText THEN name ELSE PyNone
       IN  BuildProcessTree(w, filter_username, StartTime(w), EndTime(w))

(* ------------------------------ state -------------------------------- *)
VARIABLES
  processes,        \* self.processes: pid -> record, in insertion order
  all_usernames,    \* self.all_usernames
  flagged_paths,    \* self.flagged_paths
  min_time,         \* self.min_time
  max_time,         \* self.max_time
  selected_hour,    \* self.selected_hour
  combo_items,      \* user_combo: the accounts listed after "All Users"
  combo_text,       \* user_combo.currentText()
  start_value,      \* start_slider.value()
  end_value,        \* end_slider.value()
  slider_max,       \* maximum of both sliders (self.slider_max after a load)
  sliders_enabled,  \* both sliders accept input
  tree_model,       \* rows of the process tree
  stats_model,      \* rows of the statistics table
  labels,           \* the six forensic metric labels
  hist,             \* the bars last handed to MatplotlibWidget.update_plot
  outcome,          \* how the last handler ended: "NoData", "InvalidRange", "Built", "LoadError"
  fresh_load,       \* the last handler run was load_csv_data
  message_cells,    \* df[message_col]: the cells the loop of lines 524-595 runs over
  row_index,        \* the number of cells that loop has been through
  scanning,         \* load_csv_data is inside that loop
  item_index,       \* the number of records the loop of lines 765-794 has been through
  call_stack,       \* the add_process_node calls that have not returned, outermost first
  descending        \* build_process_tree is inside the loop of lines 765-794

vars == <<processes, all_usernames, flagged_paths, min_time, max_time, selected_hour,
          combo_items, combo_text, start_value, end_value, slider_max, sliders_enabled,
          tree_model, stats_model, labels, hist, outcome, fresh_load,
          message_cells, row_index, scanning, item_index, call_stack, descending>>

Window ==
  [processes |-> processes, all_usernames |-> all_usernames, flagged_paths |-> flagged_paths,
   min_time |-> min_time, max_time |-> max_time, selected_hour |-> selected_hour,
   combo_items |-> combo_items, combo_text |-> combo_text,
   start_value |-> start_value, end_value |-> end_value, slider_max |-> slider_max,
   sliders_enabled |-> sliders_enabled, tree_model |-> tree_model,
   stats_model |-> stats_model, labels |-> labels, hist |-> hist, outcome |-> outcome]

(* the window becomes w *)
Shown(w, is_load) ==
  /\ processes' = w.processes
  /\ all_usernames' = w.all_usernames
  /\ flagged_paths' = w.flagged_paths
  /\ min_time' = w.min_time
  /\ max_time' = w.max_time
  /\ selected_hour' = w.selected_hour
  /\ combo_items' = w.combo_items
  /\ combo_text' = w.combo_text
  /\ start_value' = w.start_value
  /\ end_value' = w.end_value
  /\ slider_max' = w.slider_max
  /\ sliders_enabled' = w.sliders_enabled
  /\ tree_model' = w.tree_model
  /\ stats_model' = w.stats_model
  /\ labels' = w.labels
  /\ hist' = w.hist
  /\ outcome' = w.outcome
  /\ fresh_load' = is_load

(* a handler that runs from its call to its return in one step *)
Become(w, is_load) ==
  /\ Shown(w, is_load)
  /\ UNCHANGED <<message_cells, row_index, scanning, item_index, call_stack, descending>>

(* ProcessTreeWindow.__init__ (lines 177-200, 325-334): empty dataset, sliders   *)
(* disabled over 0..100, the combo holding "All Users" alone.                    *)
Init ==
  /\ processes = <<>>
  /\ all_usernames = {}
  /\ flagged_paths = {}
  /\ min_time = 0
  /\ max_time = 0
  /\ selected_hour = NoHour
  /\ combo_items = <<>>
  /\ combo_text = AllUsersText
  /\ start_value = 0
  /\ end_value = 0
  /\ slider_max = DefaultSliderMax
  /\ sliders_enabled = FALSE
  /\ tree_model = {}
  /\ stats_model = NoStats
  /\ labels = ZeroLabels
  /\ hist = <<>>
  /\ outcome = "NoData"
  /\ fresh_load = FALSE
  /\ message_cells = <<>>
  /\ row_index = 0
  /\ scanning = FALSE
  /\ item_index = 0
  /\ call_stack = <<>>
  /\ descending = FALSE

(* --------------------------- load_csv_data ---------------------------- *)
(* lines 499-500 and 621-622: user_combo.clear() then addItem("All Users"); each *)
(* changes the current text, and currentTextChanged runs filter_tree with it.    *)
ComboReset(w) ==
  LET cleared == FilterTree([w EXCEPT !.combo_items = <<>>, !.combo_text = <<>>], <<>>)
  IN  FilterTree([cleared EXCEPT !.combo_text = AllUsersText], AllUsersText)

(* lines 501-507 and 623-630 *)
ClearViews(w) ==
  [w EXCEPT !.tree_model = {}, !.stats_model = NoStats, !.labels = ZeroLabels]

(* lines 620-635: the except branch. *)
LoadFailed(w) ==
  [ClearViews(ComboReset(w)) EXCEPT !.sliders_enabled = FALSE, !.outcome = "LoadError"]

(* datetime(2025, 5, 14).timestamp() and datetime(2025, 5, 14, 23, 59, 59).timestamp() *)
FallbackMinTime == 1747180800

FallbackMaxTime == 1747267199

(* lines 597-599 *)
AutoFlag(procs, flagged) == flagged \cup LotlPaths(procs)

(* SetTimeWindow without the default of 100 for an empty range. *)
SetTimeWindowNoDefault(w) ==
  LET no_times == w.min_time = FloatInf \/ w.max_time = FloatNegInf
      lo == IF no_times THEN FallbackMinTime ELSE w.min_time
      hi == IF no_times THEN FallbackMaxTime ELSE w.max_time
      new_max == (hi - lo) \div step_size
  IN  [w EXCEPT !.min_time = lo, !.max_time = hi, !.slider_max = new_max,
                !.start_value = 0, !.end_value = new_max, !.sliders_enabled = TRUE]

(* lines 605-615: the time window and the sliders over it. *)
SetTimeWindow(w) ==
  LET no_times == w.min_time = FloatInf \/ w.max_time = FloatNegInf
      lo == IF no_times THEN FallbackMinTime ELSE w.min_time
      hi == IF no_times THEN FallbackMaxTime ELSE w.max_time
      range_seconds == hi - lo
      new_max == IF range_seconds > 0 THEN range_seconds \div step_size ELSE DefaultSliderMax
  IN  [w EXCEPT !.min_time = lo, !.max_time = hi, !.slider_max = new_max,
                !.start_value = 0, !.end_value = new_max, !.sliders_enabled = TRUE]

(* ClearDataset without flagged_paths.clear(). *)
ClearDatasetKeepFlags(w) ==
  [w EXCEPT !.processes = <<>>, !.all_usernames = {},
            !.min_time = FloatInf, !.max_time = FloatNegInf]

(* lines 509-513 *)
ClearDataset(w) ==
  [w EXCEPT !.processes = <<>>, !.all_usernames = {}, !.flagged_paths = {},
            !.min_time = FloatInf, !.max_time = FloatNegInf]

(* lines 496-635.  file.readable is FALSE when pd.read_csv raises.  The slots run  *)
(* by the slider changes of lines 610-613 compute the same views from the same     *)
(* dataset and are overwritten by lines 616-618.                                   *)
LoadCsvData(w, file) ==
  IF ~file.readable THEN LoadFailed(w)
  ELSE LET cleared == ClearDataset(ClearViews(ComboReset(w)))
       IN  IF ~HasMessageColumn(file.messages) THEN LoadFailed(cleared)
           ELSE LET scan == ScanMessages([processes |-> <<>>, all_usernames |-> {},
                                          min_time |-> FloatInf, max_time |-> FloatNegInf],
                                         file.messages)
                    loaded == [cleared EXCEPT !.processes = scan.processes,
                                              !.all_usernames = scan.all_usernames,
                                              !.min_time = scan.min_time,
                                              !.max_time = scan.max_time,
                                              !.flagged_paths = AutoFlag(scan.processes, @),
                                              !.combo_items = Sorted(scan.all_usernames)]
                IN  FilterTree(SetTimeWindow(loaded), PyNone)

(* ------------------------------ inputs -------------------------------- *)
Both == BothMarks

MsgRoot == Message(Both, Alice, Pid100, Pid999, PathPowerShell, TimeDay1Hour01,
                   CmdShell, ElevationFull, PathExplorer)

MsgChild == Message(Both, Alice, Pid200, Pid100, PathApp, TimeDay1Hour01b,
                    CmdNetUse, ElevationDefault, PathPowerShell)

MsgChildBob == Message(Both, Bob, Pid200, Pid100, PathAppOther, TimeDay1Hour02,
                       CmdRegAdd, ElevationLimited, PathPowerShell)

MsgNextDay == Message(Both, Bob, Pid300, Pid200, PathApp, TimeDay2Hour01,
                      NoMatch, NoMatch, NoMatch)

MsgSelf == Message(Both, Bob, Pid100, Pid100, PathAppOther, TimeDay1Hour02,
                   CmdPlain, ElevationDefault, PathExplorer)

MsgCycle == Message(Both, Alice, Pid100, Pid200, PathPowerShell, TimeOverRange,
                    CmdPlain, ElevationDefault, PathApp)

MsgDash == Message(Both, DashText, Pid300, Pid999, PathApp, TimeDay1Early,
                   CmdPlain, ElevationDefault, PathExplorer)

MsgNoEventId == Message({"Creator Subject"}, Alice, Pid300, Pid999, PathApp, TimeDay1Hour01,
                        CmdPlain, ElevationDefault, PathExplorer)

MsgNoPath == Message(Both, Alice, Pid300, Pid999, NoMatch, TimeDay1Hour01,
                     CmdPlain, ElevationDefault, PathExplorer)

MsgOther == Message({}, NoMatch, NoMatch, NoMatch, NoMatch, NoMatch, NoMatch, NoMatch, NoMatch)

Messages == {MsgRoot, MsgChild, MsgNextDay, MsgSelf, MsgCycle, MsgOther}

MessageColumns == UNION {[1..n -> Messages] : n \in 1..MaxRows}

Files == {[readable |-> FALSE, messages |-> <<>>]}
           \cup {[readable |-> TRUE, messages |-> m] : m \in MessageColumns}

(* positions a slider is moved to *)
SliderStops(max) == {0, max}

(* ------------------------------ actions ------------------------------- *)
(* browse_file -> load_csv_data *)
Load ==
  \E file \in Files :
    \E w \in {LoadCsvData(Window, file)} : Become(w, TRUE)

(* user_combo.currentTextChanged -> filter_tree(text) *)
SelectUser ==
  \E text \in {AllUsersText} \cup Range(combo_items) :
    /\ text # combo_text
    /\ \E w \in {FilterTree([Window EXCEPT !.combo_text = text], text)} : Become(w, FALSE)

(* start_slider.valueChanged -> update_time_labels -> filter_tree *)
MoveStartSlider ==
  \E v \in SliderStops(slider_max) :
    /\ sliders_enabled
    /\ v # start_value
    /\ \E w \in {FilterTree([Window EXCEPT !.start_value = v], PyNone)} : Become(w, FALSE)

(* end_slider.valueChanged -> update_time_labels -> filter_tree *)
MoveEndSlider ==
  \E v \in SliderStops(slider_max) :
    /\ sliders_enabled
    /\ v # end_value
    /\ \E w \in {FilterTree([Window EXCEPT !.end_value = v], PyNone)} : Become(w, FALSE)

(* lines 100-102: the label of the bar clicked, without its date. *)
ClickedHour(label) == IF Len(label) = 3 THEN Tail(label) ELSE label

(* bars a click is placed on: the first bar and every bar holding a record *)
ClickStops == {i \in 1..Len(hist) : i = 1 \/ hist[i].count > 0}

(* MatplotlibWidget.on_click -> on_hour_selected(hour) (lines 87-104, 380-382) *)
ClickHour ==
  \E i \in ClickStops :
    \E w \in {FilterTree([Window EXCEPT !.selected_hour = ClickedHour(hist[i].hour)], PyNone)} : Become(w, FALSE)

(* MatplotlibWidget.on_double_click -> on_hour_selected(None) (lines 106-110) *)
DoubleClickHour ==
  \E w \in {FilterTree([Window EXCEPT !.selected_hour = NoHour], PyNone)} : Become(w, FALSE)

(* lines 388-403 and 428-430: the texts of the rows a context menu opens on, the  *)
(* rows of the tree and the application rows of the stats table.                 *)
MenuNames ==
  {row.name : row \in tree_model} \cup {stats_model.apps[i].app : i \in 1..Len(stats_model.apps)}

(* lines 405-408 and 432-435: the paths the menu of a row lists. *)
MenuPaths(process_name) ==
  {data.full_path : data \in {d \in Values(processes) :
                                d.process_name = process_name /\ d.full_path # UnknownText}}

(* the menu entry of a path not flagged (line 416 or 444) -> flag_process (lines 454-456) *)
FlagProcess ==
  \E process_name \in MenuNames :
    \E full_path \in MenuPaths(process_name) :
      /\ full_path \notin flagged_paths
      /\ \E w \in {FilterTree([Window EXCEPT !.flagged_paths = @ \cup {full_path}], PyNone)} :
           Become(w, FALSE)

(* the menu entry of a flagged path (line 417 or 445) -> unflag_process (lines 458-460) *)
UnflagProcess ==
  \E process_name \in MenuNames :
    \E full_path \in MenuPaths(process_name) :
      /\ full_path \in flagged_paths
      /\ \E w \in {FilterTree([Window EXCEPT !.flagged_paths = @ \ {full_path}], PyNone)} :
           Become(w, FALSE)

Next ==
  \/ Load
  \/ SelectUser
  \/ MoveStartSlider
  \/ MoveEndSlider
  \/ ClickHour
  \/ DoubleClickHour
  \/ FlagProcess
  \/ UnflagProcess

Spec == Init /\ [][Next]_vars

(* ------------------- the loop of load_csv_data, by row ------------------- *)
(* ScanSpec follows one load_csv_data on a new window row by row: it starts  *)
(* where the loop of lines 524-595 is entered, goes through one cell of the  *)
(* message column per step, and ends with lines 597-618.                     *)
MaxScanRows == 3

CmdEncoded == <<"P","o","w","e","r","S","h","e","l","l"," ","-","e","n","c">>

CmdShellNet == <<"c","m","d"," ","/","c"," ","n","e","t"," ","u","s","e">>

MsgEncoded == Message(Both, Alice, Pid300, Pid999, PathPowerShell, TimeDay1Hour01,
                      CmdEncoded, ElevationFull, PathExplorer)

MsgShellNet == Message(Both, Bob, Pid200, Pid300, PathApp, TimeDay1Hour01b,
                       CmdShellNet, ElevationLimited, PathPowerShell)

(* 2025-05-14 01:30:45 UTC, 1815 seconds after TimeDay1Hour01 *)
TimeDay1Hour01c == <<"1","7","4","7","1","8","6","2","4","5">>

MsgLate == Message(Both, Alice, Pid200, Pid100, PathApp, TimeDay1Hour01c,
                   CmdPlain, ElevationDefault, PathPowerShell)

ScanCells == {MsgRoot, MsgSelf, MsgCycle, MsgDash, MsgNoEventId, MsgNoPath, MsgOther,
              MsgEncoded, MsgShellNet, MsgLate}

ScanColumns ==
  {m \in UNION {[1..n -> ScanCells] : n \in 1..MaxScanRows} : HasMessageColumn(m)}

(* lines 498-522 on the window of __init__: the combo and the views reset, the  *)
(* dataset cleared, the message column found.                                   *)
ScanInit ==
  /\ processes = <<>>
  /\ all_usernames = {}
  /\ flagged_paths = {}
  /\ min_time = FloatInf
  /\ max_time = FloatNegInf
  /\ selected_hour = NoHour
  /\ combo_items = <<>>
  /\ combo_text = AllUsersText
  /\ start_value = 0
  /\ end_value = 0
  /\ slider_max = DefaultSliderMax
  /\ sliders_enabled = FALSE
  /\ tree_model = {}
  /\ stats_model = NoStats
  /\ labels = ZeroLabels
  /\ hist = <<>>
  /\ outcome = "NoData"
  /\ fresh_load = FALSE
  /\ message_cells \in ScanColumns
  /\ row_index = 0
  /\ scanning = TRUE
  /\ item_index = 0
  /\ call_stack = <<>>
  /\ descending = FALSE

(* lines 524-595: one pass of the loop body *)
ScanRow ==
  /\ scanning
  /\ row_index < Len(message_cells)
  /\ LET msg == message_cells[row_index + 1]
         scan == [processes |-> processes, all_usernames |-> all_usernames,
                  min_time |-> min_time, max_time |-> max_time]
         next == IF Qualifies(msg) /\ HasRequiredGroups(msg)
                 THEN StoreMessage(scan, msg) ELSE scan
     IN  /\ processes' = next.processes
         /\ all_usernames' = next.all_usernames
         /\ min_time' = next.min_time
         /\ max_time' = next.max_time
  /\ row_index' = row_index + 1
  /\ UNCHANGED <<flagged_paths, selected_hour, combo_items, combo_text, start_value,
                 end_value, slider_max, sliders_enabled, tree_model, stats_model,
                 labels, hist, outcome, fresh_load, message_cells, scanning,
                 item_index, call_stack, descending>>

(* lines 597-618: the flags, the combo, the time window and the views *)
FinishLoad(w) ==
  FilterTree(SetTimeWindow([w EXCEPT !.flagged_paths = AutoFlag(w.processes, @),
                                     !.combo_items = Sorted(w.all_usernames)]), PyNone)

(* the loop is through: lines 597-618 *)
ScanEnd ==
  /\ scanning
  /\ row_index = Len(message_cells)
  /\ \E w \in {FinishLoad(Window)} : Shown(w, TRUE)
  /\ scanning' = FALSE
  /\ UNCHANGED <<message_cells, row_index, item_index, call_stack, descending>>

ScanNext ==
  \/ ScanRow
  \/ ScanEnd
  \/ SelectUser
  \/ MoveStartSlider
  \/ MoveEndSlider

ScanSpec == ScanInit /\ [][ScanNext]_vars

(* ------------- the descent of build_process_tree, by call --------------- *)
(* DescentSpec follows one build_process_tree over a loaded dataset: the    *)
(* loop of lines 765-794 record by record and every add_process_node call   *)
(* of lines 848-879 child by child, with the calls that have not returned   *)
(* on call_stack.  The code runs each step as soon as the one before it     *)
(* has ended, which is the fairness of DescentSpec.                         *)
MaxDepth == 4

MaxDescentRows == 3

(* the files a descent is run on *)
DescentFiles ==
  {[readable |-> TRUE, messages |-> m] :
     m \in UNION {[1..n -> Messages] : n \in 1..MaxDescentRows}}

(* the window of __init__ *)
NewWindow ==
  [processes |-> <<>>, all_usernames |-> {}, flagged_paths |-> {},
   min_time |-> 0, max_time |-> 0, selected_hour |-> NoHour,
   combo_items |-> <<>>, combo_text |-> AllUsersText,
   start_value |-> 0, end_value |-> 0, slider_max |-> DefaultSliderMax,
   sliders_enabled |-> FALSE, tree_model |-> {},
   stats_model |-> NoStats, labels |-> ZeroLabels, hist |-> <<>>, outcome |-> "NoData"]

(* build_process_tree at its loop (lines 743-764) in the filter_tree that a   *)
(* choice of the combo runs on the dataset of a load: both models emptied.   *)
DescentEntries ==
  {[w EXCEPT !.combo_text = text, !.tree_model = {}, !.stats_model = NoStats] :
     <<w, text>> \in
       {<<w, text>> \in {LoadCsvData(NewWindow, file) : file \in DescentFiles} \X {AllUsersText, Alice, Bob} :
          /\ w.processes # <<>>
          /\ text \in {AllUsersText} \cup Range(w.combo_items)}}

DescentInit ==
  \E w \in DescentEntries :
    /\ processes = w.processes
    /\ all_usernames = w.all_usernames
    /\ flagged_paths = w.flagged_paths
    /\ min_time = w.min_time
    /\ max_time = w.max_time
    /\ selected_hour = w.selected_hour
    /\ combo_items = w.combo_items
    /\ combo_text = w.combo_text
    /\ start_value = w.start_value
    /\ end_value = w.end_value
    /\ slider_max = w.slider_max
    /\ sliders_enabled = w.sliders_enabled
    /\ tree_model = w.tree_model
    /\ stats_model = w.stats_model
    /\ labels = w.labels
    /\ hist = w.hist
    /\ outcome = w.outcome
    /\ fresh_load = FALSE
    /\ message_cells = <<>>
    /\ row_index = 0
    /\ scanning = FALSE
    /\ item_index = 0
    /\ call_stack = <<>>
    /\ descending = TRUE

(* lines 881-888: the arguments filter_tree hands to build_process_tree *)
FilterUsername == IF combo_text # AllUsersText THEN combo_text ELSE PyNone

(* IsRoot that holds of every record. *)
IsRootAlways(procs, data) == TRUE

(* line 793 *)
IsRoot(procs, data) == data.creator_pid \notin Keys(procs)

(* lines 849-874: the row add_process_node appends for pid under parent *)
NodeRow(w, parent, pid) ==
  [pid |-> pid, parent |-> parent, name |-> Get(w.processes, pid).process_name,
   brush |-> NodeBrush(w, Get(w.processes, pid))]

(* add_process_node is entered: its row is appended, its frame is the innermost *)
Call(parent, pid) ==
  /\ Len(call_stack) < MaxDepth
  /\ call_stack' = Append(call_stack, [pid |-> pid, next |-> 1])
  /\ tree_model' = tree_model \cup {NodeRow(Window, parent, pid)}

(* lines 765-794: one pass of the loop of build_process_tree, taken when no call *)
(* is open; a record that passes the filter and is a root starts a call.         *)
DescentLoop ==
  /\ descending
  /\ call_stack = <<>>
  /\ item_index < Len(processes)
  /\ LET it == processes[item_index + 1]
     IN  IF /\ PassesFilter(Window, it.value, FilterUsername, StartTime(Window), EndTime(Window))
            /\ IsRoot(processes, it.value)
         THEN Call(RootText, it.key)
         ELSE UNCHANGED <<call_stack, tree_model>>
  /\ item_index' = item_index + 1
  /\ UNCHANGED <<processes, all_usernames, flagged_paths, min_time, max_time, selected_hour,
                 combo_items, combo_text, start_value, end_value, slider_max, sliders_enabled,
                 stats_model, labels, hist, outcome, fresh_load,
                 message_cells, row_index, scanning, descending>>

(* the children left to the innermost call *)
KidsOf(pid) == GetOr(BuildChildren(processes, <<>>), pid, <<>>)

(* lines 876-879: one pass of the loop of the innermost call over its children *)
DescentChild ==
  /\ descending
  /\ call_stack # <<>>
  /\ LET top == call_stack[Len(call_stack)]
         kids == KidsOf(top.pid)
         rest == [call_stack EXCEPT ![Len(call_stack)].next = top.next + 1]
     IN  /\ top.next <= Len(kids)
         /\ IF ChildAccountShown(Window, kids[top.next])
            THEN /\ Len(call_stack) < MaxDepth
                 /\ call_stack' = Append(rest, [pid |-> kids[top.next], next |-> 1])
                 /\ tree_model' = tree_model \cup {NodeRow(Window, top.pid, kids[top.next])}
            ELSE /\ call_stack' = rest
                 /\ UNCHANGED tree_model
  /\ UNCHANGED <<processes, all_usernames, flagged_paths, min_time, max_time, selected_hour,
                 combo_items, combo_text, start_value, end_value, slider_max, sliders_enabled,
                 stats_model, labels, hist, outcome, fresh_load,
                 message_cells, row_index, scanning, item_index, descending>>

(* line 879 is through: the innermost call returns *)
DescentReturn ==
  /\ descending
  /\ call_stack # <<>>
  /\ call_stack[Len(call_stack)].next > Len(KidsOf(call_stack[Len(call_stack)].pid))
  /\ call_stack' = SubSeq(call_stack, 1, Len(call_stack) - 1)
  /\ UNCHANGED <<processes, all_usernames, flagged_paths, min_time, max_time, selected_hour,
                 combo_items, combo_text, start_value, end_value, slider_max, sliders_enabled,
                 tree_model, stats_model, labels, hist, outcome, fresh_load,
                 message_cells, row_index, scanning, item_index, descending>>

(* lines 796-827: the loop is through; the stats rows, the labels, the histogram *)
DescentEnd ==
  /\ descending
  /\ call_stack = <<>>
  /\ item_index = Len(processes)
  /\ LET filtered == SelectSeq(processes,
                       LAMBDA it : PassesFilter(Window, it.value, FilterUsername,
                                                StartTime(Window), EndTime(Window)))
     IN  /\ stats_model' = StatsRows(Window, filtered)
         /\ labels' = MetricLabels(filtered)
         /\ hist' = BuildProcessHist(Window, FilterUsername, StartTime(Window), EndTime(Window))
  /\ outcome' = "Built"
  /\ descending' = FALSE
  /\ UNCHANGED <<processes, all_usernames, flagged_paths, min_time, max_time, selected_hour,
                 combo_items, combo_text, start_value, end_value, slider_max, sliders_enabled,
                 tree_model, fresh_load, message_cells, row_index, scanning, item_index,
                 call_stack>>

DescentNext ==
  \/ DescentLoop
  \/ DescentChild
  \/ DescentReturn
  \/ DescentEnd

DescentSpec == DescentInit /\ [][DescentNext]_vars /\ WF_vars(DescentNext)

(* ============================ properties ============================= *)
(* the records of the dataset *)
Records == Values(processes)

Pids == Keys(processes)

CreatorOf(pid) == Get(processes, pid).creator_pid

(* the root set of the forest: pids whose creator is no key of the record set *)
RootSet == {pid \in Pids : CreatorOf(pid) \notin Pids}

(* the places of pid in the child lists of the parents that are records *)
ChildPlaces(pid) ==
  LET children == BuildChildren(processes, <<>>)
  IN  {<<parent, j>> \in Pids \X (1..Len(processes)) :
         /\ parent \in Keys(children)
         /\ j <= Len(Get(children, parent))
         /\ Get(children, parent)[j] = pid}

(* C1: after any load, every pid of the record set is in exactly one place of   *)
(* the forest: in the root set and in no parent's child list, or out of the     *)
(* root set and at exactly one position of exactly one parent's child list.     *)
C1_OnePlaceInForest ==
  \A pid \in Pids :
    \/ pid \in RootSet /\ ChildPlaces(pid) = {}
    \/ pid \notin RootSet /\ Cardinality(ChildPlaces(pid)) = 1

(* a loaded dataset of two records that create each other, none of them a root *)
C1_Witness ==
  /\ Len(processes) = 2
  /\ RootSet = {}
  /\ \E pid \in Pids : CreatorOf(pid) # pid /\ CreatorOf(CreatorOf(pid)) = pid

RECURSIVE SumCounts(_)
SumCounts(rows) == IF rows = <<>> THEN 0 ELSE Head(rows).count + SumCounts(Tail(rows))

(* C2: whenever the stats summary shows a total, the counts of its application  *)
(* rows add up to that total, whatever account, time range and hour are chosen. *)
C2_AppCountsSumToTotal ==
  stats_model.head = "Total Processes" => SumCounts(stats_model.apps) = stats_model.total

(* two records of one application counted together under an hour selection *)
C2_Witness ==
  /\ stats_model.head = "Total Processes"
  /\ selected_hour # NoHour
  /\ \E i \in 1..Len(stats_model.apps) : stats_model.apps[i].count = 2

(* the time window of the sliders *)
TimeFrom == min_time + start_value * step_size

TimeTo == min_time + end_value * step_size

AccountOk(data) == combo_text = AllUsersText \/ data.account_name = combo_text

WindowOk(data) == TimeFrom <= data.time_generated /\ data.time_generated <= TimeTo

HourOk(data) ==
  \/ selected_hour = NoHour
  \/ <<(HourFloor(data.time_generated) % 86400) \div 3600, 0>> = selected_hour

TimeValid(data) == data.time_generated > 0 /\ data.time_generated <= MaxEpoch

(* the pids counted by the filter of the claims *)
Counted == {pid \in Pids : LET data == Get(processes, pid)
                           IN  AccountOk(data) /\ WindowOk(data) /\ HourOk(data)}

CountedNoHour == {pid \in Pids : LET data == Get(processes, pid)
                                 IN  AccountOk(data) /\ WindowOk(data)}

HistSum == SumCounts(hist)

LotlNames == {Lower(b) : b \in Range(lotl_binaries)}

OnLotlList(data) == Lower(data.process_name) \in LotlNames

AutoFlags == {data.full_path : data \in {d \in Records : OnLotlList(d)}}

(* C4: a flagged path leaves the flag set only by the unflag of that very path  *)
(* or by a load (filter changes and flag/unflag calls on other paths keep it),  *)
(* and after a load that read a dataset no manual flag is left: every flagged   *)
(* path is the path of a living-off-the-land record of the new dataset.         *)
C4_FlagLeavesOnlyByUnflagOrLoad ==
  [][/\ \A p \in flagged_paths :
          p \notin flagged_paths' => fresh_load' \/ flagged_paths' = flagged_paths \ {p}
     /\ fresh_load' /\ outcome' # "LoadError" => flagged_paths' \subseteq AutoFlags']_vars

(* a manual flag on a path off the list, kept while an account and an hour are chosen *)
C4_Witness ==
  /\ PathApp \in flagged_paths
  /\ PathApp \notin AutoFlags
  /\ ~fresh_load
  /\ outcome = "Built"
  /\ combo_text # AllUsersText
  /\ selected_hour # NoHour

(* C5: right after a successful load the flag set is the set of the fullPaths   *)
(* of the records whose processName, compared case-insensitively, is on the     *)
(* living-off-the-land list: each of them is in it, and no other path is.       *)
C5_AutoFlagsAfterLoad ==
  fresh_load /\ outcome # "LoadError" =>
    /\ \A data \in Records : OnLotlList(data) => data.full_path \in flagged_paths
    /\ \A data \in Records :
         data.full_path \in flagged_paths => \E d \in Records : OnLotlList(d) /\ d.full_path = data.full_path

(* "PowerShell.EXE" loaded and flagged with no manual action *)
C5_Witness ==
  /\ fresh_load
  /\ outcome = "Built"
  /\ \E data \in Records :
       /\ data.process_name = <<"P","o","w","e","r","S","h","e","l","l",".","E","X","E">>
       /\ data.full_path \in flagged_paths

(* the record shown by a row of the tree *)
RowRecord(row) == Get(processes, row.pid)

(* C6 as stated: after any flag and unflag calls that follow a load, the        *)
(* fullPath of every living-off-the-land record is still flagged, and its row   *)
(* in the tree is drawn flagged.                                                *)
C6_LotlAlwaysFlagged ==
  /\ \A data \in Records : OnLotlList(data) => data.full_path \in flagged_paths
  /\ outcome = "Built" =>
       \A row \in tree_model : OnLotlList(RowRecord(row)) => row.brush = "blue"

(* C6 amended: there is one flag set, seeded by the load with the paths of the  *)
(* living-off-the-land records and changed by flag and unflag alike; a row of   *)
(* a built tree is drawn flagged exactly when its record's fullPath is in that  *)
(* set, so unflag of a living-off-the-land path removes its automatic flag too. *)
C6_ReportedFlagIsTheFlagSet ==
  outcome = "Built" =>
    \A row \in tree_model : row.brush = "blue" <=> RowRecord(row).full_path \in flagged_paths

(* a living-off-the-land record shown unflagged after unflag of its path *)
C6_Witness ==
  /\ outcome = "Built"
  /\ \E row \in tree_model : OnLotlList(RowRecord(row)) /\ row.brush # "blue"
  /\ \E row \in tree_model : row.brush = "blue"

(* C7: a filter recomputation on a non-empty dataset with the start time after  *)
(* the end time reports InvalidRange, builds no forest (the tree rows are not   *)
(* touched) and no filtered set (the stats hold the notice alone), sets the six *)
(* counters to zero and empties the histogram.                                  *)
C7_InvalidRangeReported ==
  [][~fresh_load' /\ processes' # <<>> /\ TimeFrom' > TimeTo' =>
       /\ outcome' = "InvalidRange"
       /\ tree_model' = tree_model
       /\ stats_model' = [head |-> "Invalid time range", total |-> 0, apps |-> <<>>]
       /\ \A k \in DOMAIN labels' : labels'[k] = 0
       /\ hist' = <<>>]_vars

(* an invalid range reported by a filter change over a loaded dataset *)
C7_Witness ==
  /\ outcome = "InvalidRange"
  /\ processes # <<>>
  /\ TimeFrom > TimeTo
  /\ stats_model.head = "Invalid time range"
  /\ hist = <<>>

(* C8: after an InvalidRange outcome the displayed process tree holds no node.  *)
C8_InvalidRangeClearsTree ==
  outcome = "InvalidRange" => tree_model = {}

(* C9: after a failed load the record mapping and the account set are empty and *)
(* the flag set holds no path of a record.                                      *)
C9_FailedLoadLeavesNothing ==
  outcome = "LoadError" =>
    /\ processes = <<>>
    /\ all_usernames = {}
    /\ \A data \in Records : data.full_path \notin flagged_paths

(* the records counted *)
CountedRecords == {Get(processes, pid) : pid \in Counted}

CountedWith(patterns) ==
  Cardinality({pid \in Counted : AnyPatternIn(patterns, Get(processes, pid).cmdline)})

(* C10: in a built view a record is counted (total, application counts, the six *)
(* counters) if and only if its account passes the account filter, its time is  *)
(* within timeFrom..timeTo and, when an hour is selected, its time floored to   *)
(* the hour and written HH:MM equals it, on whatever day.                       *)
C10_CountedIffPasses ==
  outcome = "Built" =>
    /\ stats_model.total = Cardinality(Counted)
    /\ \A i \in 1..Len(stats_model.apps) :
         stats_model.apps[i].count =
           Cardinality({pid \in Counted : Get(processes, pid).process_name = stats_model.apps[i].app})
    /\ \A pid \in Counted :
         \E i \in 1..Len(stats_model.apps) : stats_model.apps[i].app = Get(processes, pid).process_name
    /\ labels.unique_users = Cardinality({d.account_name : d \in CountedRecords})
    /\ labels.unique_parents = Cardinality({d.creator_name : d \in CountedRecords})
    /\ labels.elevated_processes =
         Cardinality({pid \in Counted : Get(processes, pid).elevation_type \in ElevatedTypes})
    /\ labels.suspicious_commands = CountedWith(suspicious_patterns)
    /\ labels.network_commands = CountedWith(network_patterns)
    /\ labels.registry_commands = CountedWith(registry_patterns)

(* an hour is selected and two records of that hour on different days are both counted *)
C10_Witness ==
  /\ outcome = "Built"
  /\ selected_hour # NoHour
  /\ \E p, q \in Counted :
       Get(processes, p).time_generated \div 86400 # Get(processes, q).time_generated \div 86400
  /\ stats_model.total = 2

(* C11 as stated: a pid is a node of the built tree only if its record passes   *)
(* the account, time-window and hour-of-day predicates of the filter; every     *)
(* ancestor of a node is a node itself, so every ancestor passes them as well,  *)
(* and a record failing the filter is attached under no parent.                 *)
C11_NodesPassTheFilter ==
  outcome = "Built" => \A row \in tree_model : row.pid \in Counted

(* load_csv_data has just run to its end without raising *)
LoadedNow == fresh_load /\ outcome # "LoadError"

(* the dataset of the two-row log: pid 0x100 of alice whose creator is no       *)
(* record, and pid 0x200 of alice created by 0x100                              *)
TwoRowLog ==
  /\ Pids = {Pid100, Pid200}
  /\ CreatorOf(Pid100) \notin Pids
  /\ CreatorOf(Pid200) = Pid100
  /\ \A data \in Records : data.account_name = Alice

(* C12 as stated: at the end of a load of the two-row log the tree holds        *)
(* exactly the root 0x100 and under it the child 0x200, the total is 2 and the  *)
(* unique-accounts counter is 1.                                                *)
C12_TwoRowLogView ==
  LoadedNow /\ TwoRowLog =>
    /\ {<<row.pid, row.parent>> : row \in tree_model} = {<<Pid100, RootText>>, <<Pid200, Pid100>>}
    /\ stats_model.total = 2
    /\ labels.unique_users = 1

(* the pids that pass the account and time-window predicates with a valid time *)
InWindow == {pid \in CountedNoHour : TimeValid(Get(processes, pid))}

(* the hours from timeFrom rounded down to timeTo rounded up, both included *)
FirstHour == TimeFrom - (TimeFrom % 3600)

LastHour == IF TimeTo % 3600 = 0 THEN TimeTo ELSE TimeTo - (TimeTo % 3600) + 3600

BucketHours == [i \in 1..((LastHour - FirstHour) \div 3600 + 1) |-> FirstHour + (i - 1) * 3600]

(* the label of a bucket: hour and minute, after the day when the buckets span *)
(* more than one day                                                            *)
BucketLabel(t) ==
  LET hour_minute == <<(t % 86400) \div 3600, 0>>
  IN  IF LastHour \div 86400 > FirstHour \div 86400 THEN <<t \div 86400>> \o hour_minute
      ELSE hour_minute

(* one bucket per hour of the range, each with the number of records of that   *)
(* hour that are in the window, 0 when there is none                            *)
HourlyBuckets ==
  [i \in 1..Len(BucketHours) |->
     [hour |-> BucketLabel(BucketHours[i]),
      count |-> Cardinality({pid \in InWindow :
                   Get(processes, pid).time_generated \div 3600 = BucketHours[i] \div 3600})]]

(* C17 as stated: for every valid filter the histogram has one bucket for each *)
(* hour from floor(timeFrom) to ceil(timeTo), hours without a record counted 0, *)
(* whichever records pass the filter, also when none passes.                    *)
C17_BucketsCoverTheRange ==
  outcome = "Built" => hist = HourlyBuckets

(* C17 amended: for every valid filter that at least one record with a valid   *)
(* time passes on account and time window, the histogram has one bucket for    *)
(* each hour from floor(timeFrom) to ceil(timeTo), hours without a record      *)
(* counted 0; when no such record passes, the histogram has no bucket.         *)
C17_BucketsCoverTheRangeUnlessEmpty ==
  outcome = "Built" => hist = IF InWindow = {} THEN <<>> ELSE HourlyBuckets

(* buckets over two days, the records in the first and the last of them and    *)
(* the hours between counted 0                                                  *)
C17_Witness ==
  /\ outcome = "Built"
  /\ Len(hist) > 3
  /\ Len(hist[1].hour) = 3
  /\ hist[1].count > 0
  /\ hist[Len(hist) - 1].count > 0
  /\ \A i \in 2..(Len(hist) - 2) : hist[i].count = 0

(* the pids whose record has the time 0 *)
Untimed == {pid \in Pids : Get(processes, pid).time_generated = 0}

(* the pids counted, those with the time 0 left out *)
CountedTimed == Counted \ Untimed

(* C18: whenever a dataset is loaded, min_time is a positive number and the    *)
(* lower bound timeFrom of every slider position is positive, and in a built   *)
(* view no record with the time 0 is counted in the total, in the count of its *)
(* application or in a forensic counter.                                       *)
C18_UntimedNeverCounted ==
  /\ processes # <<>> => min_time > 0 /\ TimeFrom > 0
  /\ outcome = "Built" =>
       /\ stats_model.total = Cardinality(CountedTimed)
       /\ \A i \in 1..Len(stats_model.apps) :
            stats_model.apps[i].count =
              Cardinality({pid \in CountedTimed :
                             Get(processes, pid).process_name = stats_model.apps[i].app})
       /\ labels.unique_users =
            Cardinality({Get(processes, pid).account_name : pid \in CountedTimed})
       /\ labels.unique_parents =
            Cardinality({Get(processes, pid).creator_name : pid \in CountedTimed})
       /\ labels.elevated_processes =
            Cardinality({pid \in CountedTimed : Get(processes, pid).elevation_type \in ElevatedTypes})
       /\ labels.suspicious_commands =
            Cardinality({pid \in CountedTimed :
                           AnyPatternIn(suspicious_patterns, Get(processes, pid).cmdline)})
       /\ labels.network_commands =
            Cardinality({pid \in CountedTimed :
                           AnyPatternIn(network_patterns, Get(processes, pid).cmdline)})
       /\ labels.registry_commands =
            Cardinality({pid \in CountedTimed :
                           AnyPatternIn(registry_patterns, Get(processes, pid).cmdline)})

(* a built view of a dataset with a record of time 0 whose account is the one  *)
(* chosen: the total counts the other record only                              *)
C18_Witness ==
  /\ outcome = "Built"
  /\ selected_hour = NoHour
  /\ combo_text # AllUsersText
  /\ \E pid \in Untimed : Get(processes, pid).account_name = combo_text
  /\ Len(processes) = 2
  /\ stats_model.total = 1

(* C22 as stated: at the end of a load that follows any hour selections no     *)
(* hour is selected, and the view of the load counts every record that passes  *)
(* the account and time-window predicates, whatever hour was chosen on the     *)
(* dataset before.                                                             *)
C22_LoadResetsTheHour ==
  LoadedNow =>
    /\ selected_hour = NoHour
    /\ stats_model.total = Cardinality(CountedNoHour)

(* the cells the loop has been through *)
ScannedRows == 1..row_index

(* a cell that is inserted: both markers, the four required fields, an account *)
(* that is neither empty nor "-"                                               *)
Inserted(msg) ==
  /\ {"EventID=4688", "Creator Subject"} \subseteq msg.marks
  /\ \A field \in {msg.account_name, msg.new_pid, msg.creator_pid, msg.new_process_name} :
       field # NoMatch
  /\ Strip(msg.account_name) \notin {<<>>, DashText}

(* the rows scanned so far that were inserted under pid *)
InsertedRows(pid) ==
  {i \in ScannedRows : Inserted(message_cells[i]) /\ Strip(message_cells[i].new_pid) = pid}

(* the record an event yields when it is the only one scanned *)
RecordOfAlone(msg) ==
  StoreMessage([processes |-> <<>>, all_usernames |-> {},
                min_time |-> FloatInf, max_time |-> FloatNegInf], msg).processes[1].value

(* C13: at every point of a load the dataset holds one record per pid, the pids *)
(* are those of the events inserted so far, and the record of a pid is the one  *)
(* its last inserted event yields alone: no field of an earlier event is kept.  *)
C13_LastEventWins ==
  /\ Cardinality(Pids) = Len(processes)
  /\ Pids = {Strip(message_cells[i].new_pid) : i \in {j \in ScannedRows : Inserted(message_cells[j])}}
  /\ \A pid \in Pids :
       Get(processes, pid) = RecordOfAlone(message_cells[SetMax(InsertedRows(pid))])

(* two events of one pid that differ in every field but the pid were inserted *)
C13_Witness ==
  \E i, j \in InsertedRows(Pid100) :
    /\ i < j
    /\ LET a == RecordOfAlone(message_cells[i])
           b == RecordOfAlone(message_cells[j])
       IN  /\ a.account_name # b.account_name
           /\ a.creator_pid # b.creator_pid
           /\ a.full_path # b.full_path
           /\ a.time_generated # b.time_generated
           /\ a.cmdline # b.cmdline
           /\ Get(processes, Pid100) = b

(* the time a record keeps for the TimeGenerated text of its event: its value  *)
(* when that is in 1..2147483647, else 0                                       *)
KeptTime(text) ==
  IF text = NoMatch \/ DecimalValue(text, 0).over THEN 0 ELSE DecimalValue(text, 0).val

(* every record of the dataset is well formed *)
WellFormedRecords ==
  \A pid \in Pids :
    LET data == Get(processes, pid)
    IN  /\ InsertedRows(pid) # {}
        /\ data.account_name \notin {<<>>, DashText}
        /\ data.time_generated \in 0..MaxEpoch
        /\ data.time_generated = KeptTime(message_cells[SetMax(InsertedRows(pid))].time_generated)

(* C14: at every point of a load each stored record comes from a cell with     *)
(* both markers and the four required fields, its account is neither empty nor *)
(* "-", its time is an integer of 0..2147483647 (0 for a missing or            *)
(* out-of-range text); a pass of the loop over a cell failing one of these     *)
(* leaves the dataset as it was.                                               *)
C14_StoredRecordsWellFormed ==
  /\ []WellFormedRecords
  /\ [][row_index' = row_index + 1 /\ ~Inserted(message_cells[row_index'])
          => processes' = processes]_vars

(* a load through a cell with a "-" account, a cell without a process path and *)
(* a cell whose time is out of range: only the last one left a record, time 0  *)
C14_Witness ==
  /\ row_index = 3
  /\ {message_cells[i] : i \in ScannedRows} = {MsgDash, MsgNoPath, MsgCycle}
  /\ Len(processes) = 1
  /\ Get(processes, Pid100).time_generated = 0

(* the valid times of the records of the dataset *)
ValidTimes == {data.time_generated : data \in Records} \ {0}

(* C15 as stated: at the end of a load min_time and max_time are the least and *)
(* the greatest valid time of the records of the loaded dataset, or the        *)
(* fallback day when no record has a valid time; events that were dropped for  *)
(* their account or overwritten by a later event of their pid have no part.    *)
C15_TimeBoundsOfDataset ==
  LoadedNow =>
    IF ValidTimes = {}
    THEN min_time = FallbackMinTime /\ max_time = FallbackMaxTime
    ELSE min_time = SetMin(ValidTimes) /\ max_time = SetMax(ValidTimes)

(* C16 as stated: at the end of a load the greatest slider position is         *)
(* (max_time - min_time) / 60 for every dataset, one with max_time = min_time  *)
(* included, and both sliders stand within 0 and that position.                *)
C16_SliderMaxIsRangeOverStep ==
  LoadedNow =>
    /\ slider_max = (max_time - min_time) \div 60
    /\ {start_value, end_value} \subseteq 0..slider_max

(* C16 amended: at the end of a load the greatest slider position is           *)
(* (max_time - min_time) / 60 rounded down when max_time exceeds min_time, and *)
(* 100 when they are equal; the start slider stands at 0 and the end slider at *)
(* the greatest position.                                                      *)
C16_SliderMaxOrDefault ==
  LoadedNow =>
    /\ max_time >= min_time
    /\ slider_max = IF max_time > min_time THEN (max_time - min_time) \div 60 ELSE 100
    /\ start_value = 0
    /\ end_value = slider_max

(* a load whose only valid time makes max_time equal min_time *)
C16_Witness ==
  /\ LoadedNow
  /\ Len(processes) > 0
  /\ max_time = min_time
  /\ slider_max = 100

(* the patterns of a category found in the command line of the record of pid *)
PatternHits(patterns, pid) ==
  LET cmdline == Get(processes, pid).cmdline
  IN  {k \in 1..Len(patterns) :
         \E i \in 0..(Len(cmdline) - Len(patterns[k])) :
           SubSeq(cmdline, i + 1, i + Len(patterns[k])) = patterns[k]}

(* the counted records with a pattern of the category in their command line *)
Matching(patterns) == Cardinality({pid \in Counted : PatternHits(patterns, pid) # {}})

PowershellEnc == <<"p","o","w","e","r","s","h","e","l","l"," ","-","e","n","c">>

(* C19: in a built view each of the three category counters is the number of   *)
(* counted records whose lower-cased command line holds at least one pattern   *)
(* of the category, a record with several patterns of a category adding 1; a   *)
(* view that counts the record of the command line "powershell -enc" alone     *)
(* shows suspicious 1, network 0 and registry 0.                               *)
C19_CategoryCounters ==
  outcome = "Built" =>
    /\ labels.suspicious_commands = Matching(suspicious_patterns)
    /\ labels.network_commands = Matching(network_patterns)
    /\ labels.registry_commands = Matching(registry_patterns)
    /\ \A pid \in Counted :
         Counted = {pid} /\ Get(processes, pid).cmdline = PowershellEnc =>
           /\ labels.suspicious_commands = 1
           /\ labels.network_commands = 0
           /\ labels.registry_commands = 0

(* the record written "PowerShell -enc" counted alone *)
C19_Witness ==
  /\ outcome = "Built"
  /\ \E i \in ScannedRows : message_cells[i].cmdline = CmdEncoded
  /\ \E pid \in Pids : Counted = {pid} /\ Get(processes, pid).cmdline = PowershellEnc
  /\ \E pid \in Pids \ Counted :
       /\ Cardinality(PatternHits(suspicious_patterns, pid)) = 2
       /\ Cardinality(PatternHits(network_patterns, pid)) = 1
  /\ labels.suspicious_commands = 1

(* the creator of pid, k records up *)
RECURSIVE CreatorUp(_, _)
CreatorUp(pid, k) ==
  IF k = 0 \/ pid \notin Pids THEN pid ELSE CreatorUp(CreatorOf(pid), k - 1)

(* the pids on a cycle of creator references *)
OnCycle == {pid \in Pids : \E k \in 1..Len(processes) : CreatorUp(pid, k) = pid}

(* the pids of the open add_process_node calls *)
StackPids == {call_stack[i].pid : i \in 1..Len(call_stack)}

(* C20 as stated: on a dataset whose creator references form a cycle, a record *)
(* that is its own creator or a cycle through two or more records, the descent *)
(* of build_process_tree and add_process_node never comes to its end.          *)
C20_CycleNeverEnds ==
  OnCycle # {} => descending

(* C20 amended: on every dataset, one with a cycle of creator references       *)
(* included, the descent comes to its end: no add_process_node call is made    *)
(* for a record on a cycle, no pid has two open calls, and no more calls are   *)
(* open than the dataset has records.                                          *)
C20_DescentEnds ==
  /\ [](/\ StackPids \cap OnCycle = {}
        /\ Cardinality(StackPids) = Len(call_stack)
        /\ Len(call_stack) <= Len(processes))
  /\ <>(~descending)

(* the descent has ended on a dataset with records on a cycle and records off  *)
(* it: the tree holds a row for each record off the cycle and for no other     *)
C20_Witness ==
  /\ ~descending
  /\ outcome = "Built"
  /\ OnCycle # {}
  /\ Pids \ OnCycle # {}
  /\ {row.pid : row \in tree_model} = Pids \ OnCycle

(* the pids whose record has a valid time *)
Timed == {pid \in Pids : TimeValid(Get(processes, pid))}

(* C21 as stated: at the end of a load, the start slider at 0, the end slider  *)
(* at its greatest position, all accounts and no hour selected, every record   *)
(* with a valid time, the one of time max_time among them, lies within         *)
(* timeFrom..timeTo and is counted in the total.                               *)
C21_FullWindowCountsEveryTimedRecord ==
  LoadedNow /\ start_value = 0 /\ end_value = slider_max
            /\ combo_text = AllUsersText /\ selected_hour = NoHour =>
    /\ \A pid \in Timed :
         LET data == Get(processes, pid)
         IN  TimeFrom <= data.time_generated /\ data.time_generated <= TimeTo
    /\ stats_model.total = Cardinality(Timed)

====
